---- MODULE Spec2Model ----
(***************************************************************************)
(* A model of ankimorphs/text_highlighting.py: the ruby / morph-status     *)
(* ranges, the status classifier (MorphAndStatus.get_status_for_morph),    *)
(* the longest-match scanner (TextHighlighter._tag_morphemes) and the      *)
(* span compositor (TextHighlighter.highlighted / _process).               *)
(*                                                                         *)
(* A Python str is a sequence of one-character strings, so that every      *)
(* offset, slice and tag length is the one the code computes.  Offsets     *)
(* are 0-based and half-open as in Python.  An Optional value is a         *)
(* sequence of length 0 (None) or 1.                                       *)
(***************************************************************************)
EXTENDS Integers, Sequences, FiniteSets, TLC

\* ------------------------------------------------------------------ bounds

\* Longest clean text handed to the compositor.
MaxLen == 4
\* Most ruby ranges in the rubies deque.
MaxRubies == 2
\* Most status ranges in the statuses deque handed to the compositor.
MaxStatuses == 2
\* Most calls of highlighted() on one TextHighlighter.
MaxCalls == 2
\* Longest expression handed to the scanner.
MaxScanLen == 3
\* Longest surface text of a unit handed to the scanner.
MaxMorphLen == 2
\* Most units handed to the scanner.
MaxUnits == 2
\* Most segments (characters, containers, fragments) of a raw text.
MaxSegments == 2
\* Most characters of plain text in the base of a container of a raw text.
MaxBaseLen == 2
\* Largest learning interval and largest interval_for_known_morphs.
MaxInterval == 4

\* The most items in a configured "filters" list.
MaxFilters == 2

\* The most constructions in one run.
MaxConstructions == 3

\* ------------------------------------------------------------ Python str

None == <<>>

Some(v) == <<v>>

Min(a, b) == IF a < b THEN a ELSE b

\* target[a:b] for 0 <= a, 0 <= b: out-of-range offsets are clamped.
Slice(target, a, b) ==
    LET lo == Min(a, Len(target))
        hi == Min(b, Len(target))
    IN  IF hi <= lo THEN <<>> ELSE SubSeq(target, lo + 1, hi)

\* target[a:]
SliceFrom(target, a) == Slice(target, a, Len(target))

\* target[:b]
SliceTo(target, b) == Slice(target, 0, b)

Last(q) == q[Len(q)]

Front(q) == SubSeq(q, 1, Len(q) - 1)

\* The three status labels, as the strings get_status_for_morph returns.
StatusUnknown == <<"u", "n", "k", "n", "o", "w", "n">>

StatusLearning == <<"l", "e", "a", "r", "n", "i", "n", "g">>

StatusKnown == <<"k", "n", "o", "w", "n">>

StatusLabels == {StatusUnknown, StatusLearning, StatusKnown}

\* ------------------------------------------------------------- RubyRange

RubyRange(start, end, base, annotation) ==
    [start |-> start, end |-> end, base |-> base, ruby |-> annotation]

RubyOpen == <<"<", "r", "u", "b", "y", ">">>

RubyClose == <<"<", "/", "r", "u", "b", "y", ">">>

RubyPrefixLen == Len(RubyOpen)

RtOpen == <<"<", "r", "t", ">">>

RtClose == <<"<", "/", "r", "t", ">">>

RubyRt(r) == RtOpen \o r.ruby \o RtClose

RubyRtOffset(r) == Len(r.base) - 1

RubyStr(r) == RubyOpen \o r.base \o RubyRt(r) \o RubyClose

RubyInject(r, target) ==
    SliceTo(target, r.start) \o RubyStr(r) \o SliceFrom(target, r.end)

\* ----------------------------------------------------------- StatusRange

StatusRange(start, end, status) ==
    [start |-> start, end |-> end, status |-> status]

StatusOpen(s) ==
    <<"<", "s", "p", "a", "n", " ", "m", "o", "r", "p", "h", "-",
      "s", "t", "a", "t", "u", "s", "=", "\"">> \o s.status \o <<"\"", ">">>

StatusOpenLen(s) == Len(StatusOpen(s))

StatusClose == <<"<", "/", "s", "p", "a", "n", ">">>

StatusInject(s, target) ==
    SliceTo(target, s.start) \o StatusOpen(s) \o Slice(target, s.start, s.end)
        \o StatusClose \o SliceFrom(target, s.end)

\* Range.start / Range.end moved by n (ruby.start += n; ruby.end += n).
Shift(range, n) == [range EXCEPT !.start = @ + n, !.end = @ + n]

\* ------------------------------------------------------------------ state

VARIABLES
    expression,                 \* TextHighlighter.expression
    rubies,                     \* TextHighlighter.rubies (deque, right end last)
    statuses,                   \* TextHighlighter.statuses
    _highlighted,               \* TextHighlighter._highlighted (Optional str)
    ruby,                       \* _process: local ruby (Optional RubyRange)
    stat,                       \* _process: local stat (Optional StatusRange)
    pc,                         \* position of the running method
    returned,                   \* the values highlighted() has returned, in order
    branch,                     \* the branch the last loop iteration took
    injected,                   \* the inject() calls of the last step
    in_rubies,                  \* the rubies deque as __init__ left it
    in_statuses,                \* the statuses deque as __init__ left it
    morphs_and_statuses,        \* _tag_morphemes: argument morphs_and_statuses
    scan_order,                 \* _tag_morphemes: the sorted list it iterates
    unit_index,                 \* _tag_morphemes: position of the for loop
    scan_expression,            \* _tag_morphemes: local expression (working copy)
    morpheme,                   \* get_status_for_morph: argument
    evaluate_morph_inflection,  \* get_status_for_morph: argument
    interval_for_known_morphs,  \* get_status_for_morph: argument
    morph_status,               \* get_status_for_morph: result (Optional str)
    ruby_end,                   \* _tag_rubies: local end
    raw_expression,             \* the expression __init__ was given
    matches,                    \* _tag_rubies: the matches found, in order
    config,                     \* the add-on's configuration (get_configs)
    default_config,             \* its defaults (get_all_default_configs)
    ankimorphs_broken,          \* ankimorphs_globals.ankimorphs_broken
    shown,                      \* the calls of show_critical_config_error so far
    last_call,                  \* the last construction and what came of it
    n_calls                     \* the constructions so far

vars ==
    <<expression, rubies, statuses, _highlighted, ruby, stat, pc, returned,
      branch, injected, in_rubies, in_statuses, morphs_and_statuses,
      scan_order, unit_index, scan_expression, morpheme,
      evaluate_morph_inflection,
      interval_for_known_morphs, morph_status, ruby_end, raw_expression,
      matches, config, default_config, ankimorphs_broken, shown, last_call,
      n_calls>>

scanVars == <<morphs_and_statuses, scan_order, unit_index, scan_expression>>

classifyVars ==
    <<morpheme, evaluate_morph_inflection, interval_for_known_morphs,
      morph_status>>

rubyVars == <<ruby_end, raw_expression, matches>>

configVars ==
    <<config, default_config, ankimorphs_broken, shown, last_call, n_calls>>

\* ---------------------------------------------------------------- config.py

\* A JSON value of the configuration, as far as the getters look at it: its
\* type and, for a dict, its items.
JsonTypes == {"str", "bool", "int", "list", "dict", "null"}

Value(t) == IF t \in {"list", "dict"} THEN [type |-> t, items |-> <<>>]
            ELSE [type |-> t]

\* A dict with the given keys, every value of the type types[key].
Dict(keys, types) == [key \in keys |-> Value(types[key])]

\* The dict d without one key.
WithoutKey(d, missing) == [key \in DOMAIN d \ {missing} |-> d[key]]

\* The dict d with the value of one key replaced.
WithItem(d, changed, item) ==
    [key \in DOMAIN d |-> IF key = changed THEN item ELSE d[key]]

\* isinstance(item, types): bool is a subclass of int.
IsInstance(item, types) ==
    item.type \in types \/ (item.type = "bool" /\ "int" \in types)

\* The outcome of an expression: the exception it raised, or its value.
Raise(exception) == [raised |-> exception, value |-> Value("null")]

Return(item) == [raised |-> "", value |-> item]

\* The exception of the first statement that raised, "" if none did.
FirstRaised(results) ==
    LET failing == {i \in 1 .. Len(results) : results[i].raised # ""}
    IN  IF failing = {} THEN ""
        ELSE results[CHOOSE i \in failing : \A j \in failing : i <= j].raised

\* assert isinstance(item, types) on the outcome of the subscript before it.
AssertIsInstance(result, types) ==
    IF result.raised # "" THEN result
    ELSE IF IsInstance(result.value, types) THEN result
    ELSE Raise("AssertionError")

\* config[key] on the dict the add-on manager hands out (lines 158, 171).
ConfigItem(configs, key) ==
    IF key \in DOMAIN configs THEN Return(configs[key]) ELSE Raise("KeyError")

\* Lines 153-160.
_get_config(configs, key) ==
    AssertIsInstance(ConfigItem(configs, key), {"str", "bool", "int", "list"})

\* Lines 168-171.
get_default_config(defaults, key) == ConfigItem(defaults, key)

\* The if is_default / else at the head of every typed getter (lines 247-250,
\* 256-259, 265-268, 274-277, 232-235).
ConfigItemOrDefault(env, key, is_default) ==
    IF is_default THEN get_default_config(env.default_config, key)
    ELSE _get_config(env.config, key)

\* Lines 246-252.
_get_key_sequence_config(env, key, is_default) ==
    AssertIsInstance(ConfigItemOrDefault(env, key, is_default), {"str"})

\* Lines 255-261.
_get_int_config(env, key, is_default) ==
    AssertIsInstance(ConfigItemOrDefault(env, key, is_default), {"int"})

\* Lines 264-270.
_get_string_config(env, key, is_default) ==
    AssertIsInstance(ConfigItemOrDefault(env, key, is_default), {"str"})

\* Lines 273-279.
_get_bool_config(env, key, is_default) ==
    AssertIsInstance(ConfigItemOrDefault(env, key, is_default), {"bool"})

\* _filter[key] (lines 283, 289, 295, 301): only a dict takes a str key, any
\* other value raises TypeError.
FilterItem(_filter, key) ==
    IF _filter.type # "dict" THEN Raise("TypeError")
    ELSE IF key \in DOMAIN _filter.items THEN Return(_filter.items[key])
    ELSE Raise("KeyError")

\* Lines 282-285.
_get_filter_str(_filter, key) ==
    AssertIsInstance(FilterItem(_filter, key), {"str"})

\* Lines 288-291.
_get_filter_bool(_filter, key) ==
    AssertIsInstance(FilterItem(_filter, key), {"bool"})

\* Lines 294-297.
_get_filter_str_from_json(_filter, key) ==
    AssertIsInstance(FilterItem(_filter, key), {"dict"})

\* Lines 300-303.
_get_filter_optional_int(_filter, key) ==
    AssertIsInstance(FilterItem(_filter, key), {"int", "null"})

\* Lines 180-186: every key of new_configs is written over configs.
update_configs(configs, new_configs) ==
    [key \in DOMAIN configs \cup DOMAIN new_configs |->
        IF key \in DOMAIN new_configs THEN new_configs[key] ELSE configs[key]]

\* Lines 189-192.
_reset_all_configs(env) ==
    [env EXCEPT !.config = update_configs(@, env.default_config)]

\* Lines 306-328: the dialog is shown; the defaults are restored if the user
\* clicks its button.
show_critical_config_error(env, clicked_ok) ==
    LET after == [env EXCEPT !.shown = @ + 1]
    IN  IF clicked_ok THEN _reset_all_configs(after) ELSE after

\* The exceptions the two except clauses name (lines 62, 144).
Caught == {"KeyError", "AssertionError"}

\* Lines 64-69 and 145-150: the body of the except clause.
ConfigErrorHandler(env, clicked_ok) ==
    IF ~env.ankimorphs_broken
    THEN [show_critical_config_error(env, clicked_ok)
             EXCEPT !.ankimorphs_broken = TRUE]
    ELSE env

\* Lines 25-61, one attribute for each getter: the statements of the try
\* block of AnkiMorphsConfigFilter.__init__.
FilterAttributes(_filter) ==
    <<_get_filter_str(_filter, "note_type"),
      _get_filter_optional_int(_filter, "note_type_id"),
      _get_filter_str_from_json(_filter, "tags"),
      _get_filter_bool(_filter, "read")>>

\* Lines 21-69: AnkiMorphsConfigFilter(_filter). env.failed records that a
\* constructor's try block raised.
AnkiMorphsConfigFilter(_filter, env, clicked_ok) ==
    LET exception == FirstRaised(FilterAttributes(_filter))
        failed == [env EXCEPT !.failed = TRUE]
    IN  IF exception = ""
        THEN [env |-> env, raised |-> "", has_error |-> FALSE]
        ELSE IF exception \in Caught
        THEN [env |-> ConfigErrorHandler(failed, clicked_ok), raised |-> "",
              has_error |-> TRUE]
        ELSE [env |-> failed, raised |-> exception, has_error |-> FALSE]

\* Lines 239-243: the loop over filters_config from its i-th item on.
RECURSIVE FiltersLoop(_, _, _, _, _)
FiltersLoop(filters_config, i, filters, env, clicked_ok) ==
    IF i > Len(filters_config)
    THEN [env |-> env, raised |-> "", filters |-> filters]
    ELSE LET am_filter ==
                 AnkiMorphsConfigFilter(filters_config[i], env, clicked_ok)
         IN  IF am_filter.raised # ""
             THEN [env |-> am_filter.env, raised |-> am_filter.raised,
                   filters |-> <<>>]
             ELSE FiltersLoop(filters_config, i + 1,
                              IF ~am_filter.has_error
                              THEN Append(filters, filters_config[i])
                              ELSE filters,
                              am_filter.env, clicked_ok)

\* Lines 231-243.
_get_filters_config(env, is_default, clicked_ok) ==
    LET filters_config ==
            AssertIsInstance(ConfigItemOrDefault(env, "filters", is_default),
                             {"list"})
    IN  IF filters_config.raised # ""
        THEN [env |-> env, raised |-> filters_config.raised, filters |-> <<>>]
        ELSE FiltersLoop(filters_config.value.items, 1, <<>>, env, clicked_ok)

\* Lines 75-142, one key for each getter: the statements of the try block of
\* AnkiMorphsConfig.__init__ before the filters.
ConfigAttributes(env, is_default) ==
    <<_get_key_sequence_config(env, "shortcut_recalc", is_default),
      _get_bool_config(env, "skip_only_known_morphs_cards", is_default),
      _get_int_config(env, "recalc_interval_for_known", is_default),
      _get_string_config(env, "tag_ready", is_default)>>

\* Lines 73-150: AnkiMorphsConfig(is_default).
AnkiMorphsConfig(env, is_default, clicked_ok) ==
    LET exception == FirstRaised(ConfigAttributes(env, is_default))
        failed == [env EXCEPT !.failed = TRUE]
    IN  IF exception # ""
        THEN [env |-> ConfigErrorHandler(failed, clicked_ok), raised |-> "",
              filters |-> <<>>]
        ELSE LET got == _get_filters_config(env, is_default, clicked_ok)
                 failed_too == [got.env EXCEPT !.failed = TRUE]
             IN  IF got.raised = "" THEN got
                 ELSE IF got.raised \in Caught
                 THEN [env |-> ConfigErrorHandler(failed_too, clicked_ok),
                       raised |-> "", filters |-> <<>>]
                 ELSE [env |-> failed_too, raised |-> got.raised,
                       filters |-> <<>>]

\* What a construction starts from: the two dicts, the flag and the dialogs
\* shown so far.
Env ==
    [config |-> config, default_config |-> default_config,
     ankimorphs_broken |-> ankimorphs_broken, shown |-> shown,
     failed |-> FALSE]

\* The state a construction leaves, and the record of it.
Constructed(call, result, has_error) ==
    /\ config' = result.env.config
    /\ ankimorphs_broken' = result.env.ankimorphs_broken
    /\ shown' = result.env.shown
    /\ last_call' = [call |-> call, failed |-> result.env.failed,
                     raised |-> result.raised, has_error |-> has_error,
                     filters |-> result.filters]
    /\ n_calls' = n_calls + 1
    /\ UNCHANGED <<default_config, expression, rubies, statuses, _highlighted,
                   ruby, stat, pc, returned, branch, injected, in_rubies,
                   in_statuses>>
    /\ UNCHANGED scanVars
    /\ UNCHANGED classifyVars
    /\ UNCHANGED rubyVars

\* am_config = AnkiMorphsConfig(is_default).
ConstructConfig ==
    /\ pc = "config"
    /\ n_calls < MaxConstructions
    /\ \E is_default \in BOOLEAN, clicked_ok \in BOOLEAN :
         Constructed("AnkiMorphsConfig",
                     AnkiMorphsConfig(Env, is_default, clicked_ok), FALSE)

\* Lines 196, 206: _get_filters_config() called for the enabled filters.
GetFiltersConfig ==
    /\ pc = "config"
    /\ n_calls < MaxConstructions
    /\ \E clicked_ok \in BOOLEAN :
         Constructed("_get_filters_config",
                     _get_filters_config(Env, FALSE, clicked_ok), FALSE)

\* AnkiMorphsConfigFilter(_filter) on one dict of the configured filters.
ConstructFilter ==
    /\ pc = "config"
    /\ n_calls < MaxConstructions
    /\ "filters" \in DOMAIN config
    /\ config["filters"].type = "list"
    /\ \E i \in 1 .. Len(config["filters"].items), clicked_ok \in BOOLEAN :
         /\ config["filters"].items[i].type = "dict"
         /\ LET am_filter ==
                    AnkiMorphsConfigFilter(config["filters"].items[i], Env,
                                           clicked_ok)
            IN  Constructed("AnkiMorphsConfigFilter",
                            [env |-> am_filter.env, raised |-> am_filter.raised,
                             filters |-> <<>>],
                            am_filter.has_error)

\* The keys AnkiMorphsConfig reads and the types it asserts for them.
ConfigTypes ==
    [shortcut_recalc |-> "str", skip_only_known_morphs_cards |-> "bool",
     recalc_interval_for_known |-> "int", tag_ready |-> "str"]

\* The keys AnkiMorphsConfigFilter reads and the types it asserts for them.
FilterTypes ==
    [note_type |-> "str", note_type_id |-> "int", tags |-> "dict",
     read |-> "bool"]

\* A filter as the settings dialog writes it.
GoodFilter ==
    [type |-> "dict", items |-> Dict(DOMAIN FilterTypes, FilterTypes)]

\* A filter with another type in one of its keys.
FilterTypeCases ==
    {<<"note_type", "int">>, <<"note_type_id", "str">>,
     <<"note_type_id", "null">>, <<"note_type_id", "bool">>,
     <<"tags", "str">>, <<"read", "int">>}

\* The items of a "filters" list: a good filter, a filter that lacks one key,
\* a filter with another type in one key, and values that are not dicts.
FilterEntries ==
    {GoodFilter}
        \cup {[GoodFilter EXCEPT !.items = WithoutKey(@, key)] :
                 key \in DOMAIN FilterTypes}
        \cup {[GoodFilter EXCEPT !.items = WithItem(@, c[1], Value(c[2]))] :
                 c \in FilterTypeCases}
        \cup {Value("str"), Value("null")}

FilterLists == UNION {[1 .. n -> FilterEntries] : n \in 0 .. MaxFilters}

\* A configuration whose keys all hold values of the asserted types.
GoodConfig(filters_config) ==
    [key \in DOMAIN ConfigTypes \cup {"filters"} |->
        IF key = "filters" THEN [type |-> "list", items |-> filters_config]
        ELSE Value(ConfigTypes[key])]

\* The configurations: good but for its filters, or with one good filter and
\* one key missing or of another type.
Configs ==
    {GoodConfig(filters_config) : filters_config \in FilterLists}
        \cup {WithoutKey(GoodConfig(<<GoodFilter>>), key) :
                 key \in DOMAIN ConfigTypes \cup {"filters"}}
        \cup {WithItem(GoodConfig(<<GoodFilter>>), key, Value(t)) :
                 key \in DOMAIN ConfigTypes, t \in JsonTypes}
        \cup {WithItem(GoodConfig(<<GoodFilter>>), "filters", Value(t)) :
                 t \in JsonTypes \ {"list"}}

\* The shipped defaults: complete, or lacking a key a later version reads.
DefaultConfigs ==
    {GoodConfig(<<GoodFilter>>),
     WithoutKey(GoodConfig(<<GoodFilter>>), "tag_ready")}

\* Nothing has been constructed yet.
NoCall ==
    [call |-> "", failed |-> FALSE, raised |-> "", has_error |-> FALSE,
     filters |-> <<>>]

\* The configuration is not read by the other methods.
NoConfigRead ==
    /\ config = GoodConfig(<<>>)
    /\ default_config = GoodConfig(<<>>)
    /\ ankimorphs_broken = FALSE
    /\ shown = 0
    /\ last_call = NoCall
    /\ n_calls = 0


\* ------------------------------------------------- TextHighlighter._process

\* One inject() call: the range as it was in the deque (orig), the offsets it
\* was injected at (at) and the characters the buffer held there (seen).
Injection(kind, orig, range, target) ==
    [kind |-> kind, orig |-> <<orig.start, orig.end>>,
     at |-> <<range.start, range.end>>,
     seen |-> Slice(target, range.start, range.end)]

\* Lines 160-161: the ruby held after the optional pop.
HeldRuby == IF ruby = None /\ rubies # <<>> THEN Some(Last(rubies)) ELSE ruby

RubiesAfterPop == IF ruby = None /\ rubies # <<>> THEN Front(rubies) ELSE rubies

\* Lines 163-164: the status held after the optional pop.
HeldStat == IF stat = None /\ statuses # <<>> THEN Some(Last(statuses)) ELSE stat

StatusesAfterPop ==
    IF stat = None /\ statuses # <<>> THEN Front(statuses) ELSE statuses

\* Lines 166-167: nothing held and nothing left: _process returns, and
\* highlighted() returns self._highlighted.
Break ==
    /\ pc' = "idle"
    /\ returned' = Append(returned, _highlighted[1])
    /\ branch' = "break"
    /\ injected' = <<>>
    /\ UNCHANGED <<_highlighted, ruby, stat>>

\* Lines 170-176.
OnlyStatuses(s) ==
    /\ _highlighted' = Some(StatusInject(s, _highlighted[1]))
    /\ injected' = <<Injection("status", s, s, _highlighted[1])>>
    /\ stat' = None
    /\ ruby' = None
    /\ branch' = "only_statuses"
    /\ pc' = "loop"
    /\ UNCHANGED returned

\* Lines 179-183.
OnlyRubies(r) ==
    /\ _highlighted' = Some(RubyInject(r, _highlighted[1]))
    /\ injected' = <<Injection("ruby", r, r, _highlighted[1])>>
    /\ ruby' = None
    /\ stat' = None
    /\ branch' = "only_rubies"
    /\ pc' = "loop"
    /\ UNCHANGED returned

NoOverlapCond(r, s) == r.end <= s.start \/ r.start >= s.end

\* NoOverlap with the comparison of line 188 turned round: the span with the
\* smaller start is injected first.
NoOverlapSmallerFirst(r, s) ==
    /\ IF r.start < s.start
       THEN /\ _highlighted' = Some(RubyInject(r, _highlighted[1]))
            /\ injected' = <<Injection("ruby", r, r, _highlighted[1])>>
            /\ ruby' = None
            /\ stat' = Some(s)
       ELSE /\ _highlighted' = Some(StatusInject(s, _highlighted[1]))
            /\ injected' = <<Injection("status", s, s, _highlighted[1])>>
            /\ stat' = None
            /\ ruby' = Some(r)
    /\ branch' = "no_overlap"
    /\ pc' = "loop"
    /\ UNCHANGED returned

\* Lines 186-194.
NoOverlap(r, s) ==
    /\ IF r.start > s.start
       THEN /\ _highlighted' = Some(RubyInject(r, _highlighted[1]))
            /\ injected' = <<Injection("ruby", r, r, _highlighted[1])>>
            /\ ruby' = None
            /\ stat' = Some(s)
       ELSE /\ _highlighted' = Some(StatusInject(s, _highlighted[1]))
            /\ injected' = <<Injection("status", s, s, _highlighted[1])>>
            /\ stat' = None
            /\ ruby' = Some(r)
    /\ branch' = "no_overlap"
    /\ pc' = "loop"
    /\ UNCHANGED returned

SameRangeCond(r, s) == r.start = s.start /\ r.end = s.end

\* SameRange with the two containers swapped: the ruby container outermost.
SameRangeRubyOutermost(r, s) ==
    /\ _highlighted' =
           Some(SliceTo(_highlighted[1], s.start) \o RubyOpen \o StatusOpen(s)
                \o r.base \o StatusClose \o RubyRt(r) \o RubyClose
                \o SliceFrom(_highlighted[1], s.end))
    /\ ruby' = None
    /\ stat' = None
    /\ injected' = <<>>
    /\ branch' = "same_range"
    /\ pc' = "loop"
    /\ UNCHANGED returned

\* SameRange without lines 206-207: both ranges stay held.
SameRangeKeepBoth(r, s) ==
    /\ _highlighted' =
           Some(SliceTo(_highlighted[1], s.start) \o StatusOpen(s) \o RubyStr(r)
                \o StatusClose \o SliceFrom(_highlighted[1], s.end))
    /\ ruby' = Some(r)
    /\ stat' = Some(s)
    /\ injected' = <<>>
    /\ branch' = "same_range"
    /\ pc' = "loop"
    /\ UNCHANGED returned

\* Lines 197-208.
SameRange(r, s) ==
    /\ _highlighted' =
           Some(SliceTo(_highlighted[1], s.start) \o StatusOpen(s) \o RubyStr(r)
                \o StatusClose \o SliceFrom(_highlighted[1], s.end))
    /\ ruby' = None
    /\ stat' = None
    /\ injected' = <<>>
    /\ branch' = "same_range"
    /\ pc' = "loop"
    /\ UNCHANGED returned

RubyInsideStatusCond(r, s) == r.start >= s.start /\ r.end <= s.end

\* Lines 211-224: the rewrite; the pull loop of lines 227-234 follows.
RubyInsideStatus(r, s) ==
    /\ _highlighted' =
           Some(SliceTo(_highlighted[1], s.start) \o StatusOpen(s)
                \o Slice(_highlighted[1], s.start, s.start + r.start - s.start)
                \o RubyStr(r) \o Slice(_highlighted[1], r.end, s.end)
                \o StatusClose \o SliceFrom(_highlighted[1], s.end))
    /\ ruby' = None
    /\ stat' = Some(s)
    /\ injected' = <<>>
    /\ branch' = "ruby_inside_status"
    /\ pc' = "pull_rubies"
    /\ UNCHANGED returned

StatusInsideRubyCond(r, s) == r.start <= s.start /\ r.end >= s.end

\* StatusInsideRuby without lines 244-245: the status is injected at the
\* offsets it had before "<ruby>" was inserted.
StatusInsideRubyNoShift(r, s) ==
    LET first == RubyInject(r, _highlighted[1])
    IN  /\ _highlighted' = Some(StatusInject(s, first))
        /\ injected' = <<Injection("ruby", r, r, _highlighted[1]),
                         Injection("status", s, s, first)>>
        /\ stat' = None
        /\ ruby' = Some(r)
        /\ branch' = "status_inside_ruby"
        /\ pc' = "pull_statuses"
        /\ UNCHANGED returned

\* Lines 241-247: both injections; the pull loop of lines 250-257 follows.
StatusInsideRuby(r, s) ==
    LET first == RubyInject(r, _highlighted[1])
        moved == Shift(s, RubyPrefixLen)
    IN  /\ _highlighted' = Some(StatusInject(moved, first))
        /\ injected' = <<Injection("ruby", r, r, _highlighted[1]),
                         Injection("status", s, moved, first)>>
        /\ stat' = None
        /\ ruby' = Some(r)
        /\ branch' = "status_inside_ruby"
        /\ pc' = "pull_statuses"
        /\ UNCHANGED returned

RubyStartsFirstCond(r, s) == r.start < s.start /\ r.end < s.end

\* RubyStartsFirst without the second status container of lines 279-281: the
\* status's text after the ruby is left bare.
RubyStartsFirstNoTail(r, s) ==
    /\ _highlighted' =
           Some(SliceTo(_highlighted[1], r.start) \o RubyOpen
                \o Slice(_highlighted[1], r.start, s.start) \o StatusOpen(s)
                \o Slice(_highlighted[1], s.start,
                         s.start + (s.end - s.start) - (s.end - r.end))
                \o StatusClose \o RubyRt(r) \o RubyClose
                \o Slice(_highlighted[1], r.end, s.end)
                \o SliceFrom(_highlighted[1], s.end))
    /\ stat' = None
    /\ ruby' = Some(r)
    /\ injected' = <<>>
    /\ branch' = "ruby_starts_first"
    /\ pc' = "pull_statuses_2"
    /\ UNCHANGED returned

\* Lines 264-284: the rewrite; the pull loop of lines 287-294 follows.
RubyStartsFirst(r, s) ==
    /\ _highlighted' =
           Some(SliceTo(_highlighted[1], r.start) \o RubyOpen
                \o Slice(_highlighted[1], r.start, s.start) \o StatusOpen(s)
                \o Slice(_highlighted[1], s.start,
                         s.start + (s.end - s.start) - (s.end - r.end))
                \o StatusClose \o RubyRt(r) \o RubyClose \o StatusOpen(s)
                \o Slice(_highlighted[1], r.end, s.end) \o StatusClose
                \o SliceFrom(_highlighted[1], s.end))
    /\ stat' = None
    /\ ruby' = Some(r)
    /\ injected' = <<>>
    /\ branch' = "ruby_starts_first"
    /\ pc' = "pull_statuses_2"
    /\ UNCHANGED returned

\* StatusStartsFirstCond with the first comparison of line 301 off by one.
StatusStartsFirstFarCond(r, s) == r.start > s.start + 1 /\ r.end > s.end

\* Line 301.
StatusStartsFirstCond(r, s) == r.start > s.start /\ r.end > s.end

\* Lines 301-320.
StatusStartsFirst(r, s) ==
    /\ _highlighted' =
           Some(SliceTo(_highlighted[1], s.start) \o StatusOpen(s)
                \o Slice(_highlighted[1], s.start, r.start) \o StatusClose
                \o RubyOpen \o StatusOpen(s)
                \o Slice(_highlighted[1], r.start, r.start + RubyRtOffset(r))
                \o StatusClose \o Slice(_highlighted[1], s.end, r.end)
                \o RubyRt(r) \o RubyClose \o SliceFrom(_highlighted[1], r.end))
    /\ ruby' = None
    /\ stat' = None
    /\ injected' = <<>>
    /\ branch' = "status_starts_first"
    /\ pc' = "loop"
    /\ UNCHANGED returned

\* Lines 322-326: no case applied; both held ranges are dropped.
Fallback ==
    /\ ruby' = None
    /\ stat' = None
    /\ injected' = <<>>
    /\ branch' = "fallback"
    /\ pc' = "loop"
    /\ UNCHANGED <<_highlighted, returned>>

\* Lines 159-326: one iteration of the while loop, up to its continue/break
\* or to the head of a pull loop.
Process ==
    /\ pc = "loop"
    /\ rubies' = RubiesAfterPop
    /\ statuses' = StatusesAfterPop
    /\ LET hr == HeldRuby
           hs == HeldStat
       IN  IF hr = None /\ hs = None THEN Break
           ELSE IF hr = None THEN OnlyStatuses(hs[1])
           ELSE IF hs = None THEN OnlyRubies(hr[1])
           ELSE IF NoOverlapCond(hr[1], hs[1]) THEN NoOverlap(hr[1], hs[1])
           ELSE IF SameRangeCond(hr[1], hs[1]) THEN SameRange(hr[1], hs[1])
           ELSE IF RubyInsideStatusCond(hr[1], hs[1])
                THEN RubyInsideStatus(hr[1], hs[1])
           ELSE IF StatusInsideRubyCond(hr[1], hs[1])
                THEN StatusInsideRuby(hr[1], hs[1])
           ELSE IF RubyStartsFirstCond(hr[1], hs[1])
                THEN RubyStartsFirst(hr[1], hs[1])
           ELSE IF StatusStartsFirstCond(hr[1], hs[1])
                THEN StatusStartsFirst(hr[1], hs[1])
           ELSE Fallback
    /\ UNCHANGED <<expression, in_rubies, in_statuses>>
    /\ UNCHANGED scanVars
    /\ UNCHANGED classifyVars
    /\ UNCHANGED rubyVars
    /\ UNCHANGED configVars

\* Lines 227-229: the pull loop over rubies goes on.
PullRubiesCond == rubies # <<>> /\ ~(Last(rubies).end <= stat[1].start)

\* PullRuby without lines 232-233: the pulled ruby is injected at the offsets
\* it had before the status's opening tag was inserted.
PullRubyNoShift ==
    /\ pc = "pull_rubies"
    /\ PullRubiesCond
    /\ LET moved == Last(rubies)
       IN  /\ rubies' = Front(rubies)
           /\ ruby' = Some(moved)
           /\ _highlighted' = Some(RubyInject(moved, _highlighted[1]))
           /\ injected' =
                  <<Injection("ruby", Last(rubies), moved, _highlighted[1])>>
    /\ UNCHANGED <<expression, statuses, stat, pc, returned, branch,
                   in_rubies, in_statuses>>
    /\ UNCHANGED scanVars
    /\ UNCHANGED classifyVars
    /\ UNCHANGED rubyVars
    /\ UNCHANGED configVars

\* Lines 231-234: one pass of the loop "pull and process rubies until the
\* next ruby is outside of this status".
PullRuby ==
    /\ pc = "pull_rubies"
    /\ PullRubiesCond
    /\ LET moved == Shift(Last(rubies), StatusOpenLen(stat[1]))
       IN  /\ rubies' = Front(rubies)
           /\ ruby' = Some(moved)
           /\ _highlighted' = Some(RubyInject(moved, _highlighted[1]))
           /\ injected' =
                  <<Injection("ruby", Last(rubies), moved, _highlighted[1])>>
    /\ UNCHANGED <<expression, statuses, stat, pc, returned, branch,
                   in_rubies, in_statuses>>
    /\ UNCHANGED scanVars
    /\ UNCHANGED classifyVars
    /\ UNCHANGED rubyVars
    /\ UNCHANGED configVars

\* Lines 227-229 and 236-238: the loop ends; both locals are released.
PullRubiesEnd ==
    /\ pc = "pull_rubies"
    /\ ~PullRubiesCond
    /\ stat' = None
    /\ ruby' = None
    /\ injected' = <<>>
    /\ pc' = "loop"
    /\ UNCHANGED <<expression, rubies, statuses, _highlighted, returned,
                   branch, in_rubies, in_statuses>>
    /\ UNCHANGED scanVars
    /\ UNCHANGED classifyVars
    /\ UNCHANGED rubyVars
    /\ UNCHANGED configVars

\* Lines 250-252 and 287-289: the pull loop over statuses goes on.
PullStatusesCond == statuses # <<>> /\ ~(Last(statuses).end <= ruby[1].start)

\* One pass of a loop "pull and process statuses until the next status is
\* outside of this ruby".
PullStatusAt(at) ==
    /\ pc = at
    /\ PullStatusesCond
    /\ LET moved == Shift(Last(statuses), RubyPrefixLen)
       IN  /\ statuses' = Front(statuses)
           /\ stat' = Some(moved)
           /\ _highlighted' = Some(StatusInject(moved, _highlighted[1]))
           /\ injected' =
                  <<Injection("status", Last(statuses), moved, _highlighted[1])>>
    /\ UNCHANGED <<expression, rubies, ruby, pc, returned, branch,
                   in_rubies, in_statuses>>
    /\ UNCHANGED scanVars
    /\ UNCHANGED classifyVars
    /\ UNCHANGED rubyVars
    /\ UNCHANGED configVars

PullStatusesEndAt(at) ==
    /\ pc = at
    /\ ~PullStatusesCond
    /\ ruby' = None
    /\ stat' = None
    /\ injected' = <<>>
    /\ pc' = "loop"
    /\ UNCHANGED <<expression, rubies, statuses, _highlighted, returned,
                   branch, in_rubies, in_statuses>>
    /\ UNCHANGED scanVars
    /\ UNCHANGED classifyVars
    /\ UNCHANGED rubyVars
    /\ UNCHANGED configVars

\* Lines 254-257.
PullStatus == PullStatusAt("pull_statuses")

\* Lines 250-252 and 259-261.
PullStatusesEnd == PullStatusesEndAt("pull_statuses")

\* Lines 291-294.
PullStatus2 == PullStatusAt("pull_statuses_2")

\* Lines 287-289 and 296-298.
PullStatusesEnd2 == PullStatusesEndAt("pull_statuses_2")

\* ---------------------------------------------- TextHighlighter.highlighted

\* The buffer started empty instead of from the expression.
ExpressionDropped(e) == <<>>

\* self.expression or ""
ExpressionOrEmpty(e) == IF e = <<>> THEN <<>> ELSE e

\* The cache is never consulted: every call starts again from the expression.
NotHighlightedOrCached == _highlighted = None \/ Len(_highlighted[1]) >= 0

\* not self._highlighted: None and "" are both falsy.
NotHighlighted == _highlighted = None \/ _highlighted[1] = <<>>

\* Line 148: the test that guards the call of _process.
NeedsProcess(h) == h # <<>> /\ (rubies # <<>> \/ statuses # <<>>)

\* Lines 142-151: a call of highlighted(), up to its return or to the first
\* iteration of _process.
Highlighted ==
    /\ pc = "idle"
    /\ Len(returned) < MaxCalls
    /\ IF NotHighlighted
       THEN LET h == ExpressionOrEmpty(expression)
            IN  /\ _highlighted' = Some(h)
                /\ IF NeedsProcess(h)
                   THEN pc' = "loop" /\ UNCHANGED returned
                   ELSE pc' = "idle" /\ returned' = Append(returned, h)
       ELSE /\ returned' = Append(returned, _highlighted[1])
            /\ UNCHANGED <<_highlighted, pc>>
    /\ ruby' = None
    /\ stat' = None
    /\ injected' = <<>>
    /\ branch' = "call"
    /\ UNCHANGED <<expression, rubies, statuses, in_rubies, in_statuses>>
    /\ UNCHANGED scanVars
    /\ UNCHANGED classifyVars
    /\ UNCHANGED rubyVars
    /\ UNCHANGED configVars

\* ------------------------------------- MorphAndStatus.get_status_for_morph

\* A Morpheme, as far as get_status_for_morph reads it: each of the two
\* interval attributes is set (an int) or absent (None).
Morpheme(inflection_interval, lemma_interval) ==
    [highest_inflection_learning_interval |-> inflection_interval,
     highest_lemma_learning_interval |-> lemma_interval]

\* getattr(object, name, default) of an attribute that may be absent.
GetAttr(attribute, default) ==
    IF attribute = None THEN default ELSE attribute[1]

\* get_status_for_morph with "<=" for the "<" of line 363.
GetStatusForMorphInclusive(m, evaluate_inflection, interval_for_known) ==
    LET learning_interval ==
            IF evaluate_inflection
            THEN GetAttr(m.highest_inflection_learning_interval, 0)
            ELSE GetAttr(m.highest_lemma_learning_interval, 0)
    IN  IF learning_interval = 0 THEN StatusUnknown
        ELSE IF learning_interval <= interval_for_known THEN StatusLearning
        ELSE StatusKnown

\* Lines 346-366.
GetStatusForMorph(m, evaluate_inflection, interval_for_known) ==
    LET learning_interval ==
            IF evaluate_inflection
            THEN GetAttr(m.highest_inflection_learning_interval, 0)
            ELSE GetAttr(m.highest_lemma_learning_interval, 0)
    IN  IF learning_interval = 0 THEN StatusUnknown
        ELSE IF learning_interval < interval_for_known THEN StatusLearning
        ELSE StatusKnown

\* A call of get_status_for_morph.
Classify ==
    /\ pc = "classify"
    /\ morph_status' =
           Some(GetStatusForMorph(morpheme, evaluate_morph_inflection,
                                  interval_for_known_morphs))
    /\ pc' = "classified"
    /\ UNCHANGED <<expression, rubies, statuses, _highlighted, ruby, stat,
                   returned, branch, injected, in_rubies, in_statuses,
                   morpheme, evaluate_morph_inflection,
                   interval_for_known_morphs>>
    /\ UNCHANGED scanVars
    /\ UNCHANGED rubyVars
    /\ UNCHANGED configVars

\* An interval attribute: absent, or 0 .. MaxInterval.
IntervalAttributes == {None} \cup {Some(i) : i \in 0 .. MaxInterval}

\* get_status_for_morph about to be called with any morpheme, flag and
\* threshold.
InitClassify ==
    /\ morpheme \in {Morpheme(i, l) : i \in IntervalAttributes,
                                      l \in IntervalAttributes}
    /\ evaluate_morph_inflection \in BOOLEAN
    /\ interval_for_known_morphs \in 0 .. MaxInterval
    /\ morph_status = None
    /\ ruby_end = 0
    /\ raw_expression = <<>>
    /\ matches = <<>>
    /\ NoConfigRead
    /\ pc = "classify"
    /\ expression = <<>>
    /\ rubies = <<>>
    /\ statuses = <<>>
    /\ in_rubies = <<>>
    /\ in_statuses = <<>>
    /\ _highlighted = None
    /\ ruby = None
    /\ stat = None
    /\ returned = <<>>
    /\ branch = "init"
    /\ injected = <<>>
    /\ morphs_and_statuses = <<>>
    /\ scan_order = <<>>
    /\ unit_index = 0
    /\ scan_expression = <<>>

NextClassify == Classify

\* The classifier called on any morpheme.
SpecClassify == InitClassify /\ [][NextClassify]_vars

\* ------------------------------------------ TextHighlighter._tag_morphemes

\* str.lower(), character by character.
LowerChar(c) == IF c = "A" THEN "a" ELSE c

Lower(text) == [i \in 1 .. Len(text) |-> LowerChar(text[i])]

\* MorphAndStatus as its __init__ leaves it (lines 338-343).
MorphAndStatus(morph, status) == [morph |-> morph, status |-> status]

\* sorted(q, key=...): q in ascending order of keys[i], the elements of equal
\* key in their order in q (Python's sort is stable, also under reverse=True).
SortedByKey(q, keys) ==
    LET rank(i) ==
            Cardinality({j \in 1 .. Len(q) :
                            \/ keys[j] < keys[i]
                            \/ (keys[j] = keys[i] /\ j < i)}) + 1
    IN  [k \in 1 .. Len(q) |-> q[CHOOSE i \in 1 .. Len(q) : rank(i) = k]]

\* The argument left in the order it came in.
InInputOrder(units) == units

\* Lines 124-126: sorted(morphs_and_statuses, key=len(morph), reverse=True).
SortedByMorphLength(units) ==
    SortedByKey(units, [i \in 1 .. Len(units) |-> 0 - Len(units[i].morph)])

\* Without the sort of line 140: the spans stay in the order they were
\* recorded in.
InRecordedOrder(ranges) == ranges

\* Line 140: sorted(self.statuses, key=range.start).
SortedByStart(ranges) ==
    SortedByKey(ranges, [i \in 1 .. Len(ranges) |-> ranges[i].start])

\* str.find: the lowest offset at which sub occurs in text, -1 if there is none.
Find(text, sub) ==
    LET hits == {i \in 0 .. Len(text) - Len(sub) :
                    Slice(text, i, i + Len(sub)) = sub}
    IN  IF hits = {} THEN 0 - 1
        ELSE CHOOSE i \in hits : \A j \in hits : i <= j

\* " " * n
Spaces(n) == [i \in 1 .. n |-> " "]

\* Lines 136-138: the matched region overwritten with spaces.
Masked(text, start, end) ==
    SliceTo(text, start) \o Spaces(end - start) \o SliceFrom(text, end)

\* The scanner stops the model after this many spans: a scan that returns
\* records at most one span per character of the expression.
MaxScanSpans == MaxScanLen + 1

\* Line 95 and lines 124-126: _tag_morphemes is called with the lowercased
\* expression and sorts its units; with no unit the loop is over at once and
\* line 140 runs.
TagMorphemes ==
    /\ pc = "init"
    /\ scan_expression' = Lower(expression)
    /\ scan_order' = SortedByMorphLength(morphs_and_statuses)
    /\ unit_index' = 1
    /\ IF morphs_and_statuses = <<>>
       THEN pc' = "scanned" /\ statuses' = SortedByStart(statuses)
       ELSE pc' = "scan" /\ UNCHANGED statuses
    /\ UNCHANGED <<expression, rubies, _highlighted, ruby, stat, returned,
                   branch, injected, in_rubies, in_statuses,
                   morphs_and_statuses>>
    /\ UNCHANGED classifyVars
    /\ UNCHANGED rubyVars
    /\ UNCHANGED configVars

\* Lines 128-138: the unit is found; its span is recorded and masked.
ScanHit ==
    /\ pc = "scan"
    /\ Len(statuses) < MaxScanSpans
    /\ LET unit == scan_order[unit_index]
           start == Find(scan_expression, unit.morph)
           end == start + Len(unit.morph)
       IN  /\ start # 0 - 1
           /\ statuses' = Append(statuses, StatusRange(start, end, unit.status))
           /\ scan_expression' = Masked(scan_expression, start, end)
    /\ UNCHANGED <<expression, rubies, _highlighted, ruby, stat, pc, returned,
                   branch, injected, in_rubies, in_statuses,
                   morphs_and_statuses, scan_order, unit_index>>
    /\ UNCHANGED classifyVars
    /\ UNCHANGED rubyVars
    /\ UNCHANGED configVars

\* Lines 128-131: the unit is not found; the for loop goes to the next unit
\* and, after the last one, line 140 sorts the recorded spans.
ScanMiss ==
    /\ pc = "scan"
    /\ Find(scan_expression, scan_order[unit_index].morph) = 0 - 1
    /\ unit_index' = unit_index + 1
    /\ IF unit_index = Len(scan_order)
       THEN pc' = "scanned" /\ statuses' = SortedByStart(statuses)
       ELSE pc' = "scan" /\ UNCHANGED statuses
    /\ UNCHANGED <<expression, rubies, _highlighted, ruby, stat, returned,
                   branch, injected, in_rubies, in_statuses,
                   morphs_and_statuses, scan_order, scan_expression>>
    /\ UNCHANGED classifyVars
    /\ UNCHANGED rubyVars
    /\ UNCHANGED configVars

\* The characters of the expressions handed to the scanner.
ScanAlphabet == {"a", "A", " "}

\* The characters of the units' surface texts (lowercased by line 338).
MorphAlphabet == {"a", " "}

\* The strings over alphabet of length lo to hi.
Strings(alphabet, lo, hi) == UNION {[1 .. n -> alphabet] : n \in lo .. hi}

\* The status of the unit at position i of the argument: neighbours differ.
StatusAt(i) ==
    IF i % 3 = 1 THEN StatusKnown
    ELSE IF i % 3 = 2 THEN StatusUnknown
    ELSE StatusLearning

\* Lists of at most MaxUnits units with different, non-empty surface texts
\* (the caller collapses duplicates).
UnitLists ==
    {[i \in 1 .. Len(ms) |-> MorphAndStatus(ms[i], StatusAt(i))] :
        ms \in {q \in UNION {[1 .. m -> Strings(MorphAlphabet, 1, MaxMorphLen)] :
                                m \in 0 .. MaxUnits} :
                    \A i, j \in 1 .. Len(q) : i # j => q[i] # q[j]}}

\* __init__ at line 95, with an expression that holds no ruby: the call of
\* _tag_morphemes is about to run.
InitScan ==
    /\ expression \in Strings(ScanAlphabet, 0, MaxScanLen)
    /\ morphs_and_statuses \in UnitLists
    /\ scan_order = <<>>
    /\ unit_index = 0
    /\ scan_expression = <<>>
    /\ rubies = <<>>
    /\ statuses = <<>>
    /\ in_rubies = <<>>
    /\ in_statuses = <<>>
    /\ _highlighted = None
    /\ ruby = None
    /\ stat = None
    /\ pc = "init"
    /\ returned = <<>>
    /\ branch = "init"
    /\ injected = <<>>
    /\ morpheme = Morpheme(None, None)
    /\ evaluate_morph_inflection = FALSE
    /\ interval_for_known_morphs = 0
    /\ morph_status = None
    /\ ruby_end = 0
    /\ raw_expression = expression
    /\ matches = <<>>
    /\ NoConfigRead

NextScan ==
    \/ TagMorphemes
    \/ ScanHit
    \/ ScanMiss

\* The scanner run on any expression and any list of units.
SpecScan == InitScan /\ [][NextScan]_vars

\* ------------------------------------------- config.py: constructions

\* Anki has loaded the add-on with any configuration and any defaults.
InitConfig ==
    /\ config \in Configs
    /\ default_config \in DefaultConfigs
    /\ ankimorphs_broken \in BOOLEAN
    /\ shown = 0
    /\ last_call = NoCall
    /\ n_calls = 0
    /\ pc = "config"
    /\ morpheme = Morpheme(None, None)
    /\ evaluate_morph_inflection = FALSE
    /\ interval_for_known_morphs = 0
    /\ morph_status = None
    /\ ruby_end = 0
    /\ raw_expression = <<>>
    /\ matches = <<>>
    /\ expression = <<>>
    /\ rubies = <<>>
    /\ statuses = <<>>
    /\ in_rubies = <<>>
    /\ in_statuses = <<>>
    /\ _highlighted = None
    /\ ruby = None
    /\ stat = None
    /\ returned = <<>>
    /\ branch = "init"
    /\ injected = <<>>
    /\ morphs_and_statuses = <<>>
    /\ scan_order = <<>>
    /\ unit_index = 0
    /\ scan_expression = <<>>

NextConfig == ConstructConfig \/ GetFiltersConfig \/ ConstructFilter

\* Any sequence of constructions, each reading the configuration as the one
\* before left it.
SpecConfig == InitConfig /\ [][NextConfig]_vars

\* ------------------------------------------------ the compositor's inputs

\* The clean text of length n: all characters differ, so that a slice taken at
\* wrong offsets is a different string.
Letters == <<"a", "b", "c", "d", "e", "f", "g", "h">>

Text(n) == SubSeq(Letters, 1, n)

\* The annotation every ruby carries.
Annotations == {<<"x", "y">>}

\* The non-empty ranges [start, end) over a text of length n.
Ranges(n) == {p \in (0 .. n) \X (0 .. n) : p[1] < p[2]}

\* At most k pairwise non-overlapping ranges in ascending order of start: the
\* order in which _tag_rubies appends and into which line 140 sorts.
RangeSeqs(n, k) ==
    {q \in UNION {[1 .. m -> Ranges(n)] : m \in 0 .. k} :
        \A i \in 1 .. Len(q) - 1 : q[i][2] <= q[i + 1][1]}

\* A TextHighlighter as __init__ leaves it (lines 89-95), before the first
\* call of highlighted().
Init ==
    /\ \E n \in 0 .. MaxLen :
         /\ expression = Text(n)
         /\ \E rq \in RangeSeqs(n, MaxRubies), a \in Annotations :
              rubies = [i \in 1 .. Len(rq) |->
                            RubyRange(rq[i][1], rq[i][2],
                                      Slice(Text(n), rq[i][1], rq[i][2]), a)]
         /\ \E sq \in RangeSeqs(n, MaxStatuses) :
              \E lab \in [1 .. Len(sq) -> StatusLabels] :
                statuses = [i \in 1 .. Len(sq) |->
                                StatusRange(sq[i][1], sq[i][2], lab[i])]
    /\ in_rubies = rubies
    /\ in_statuses = statuses
    /\ _highlighted = None
    /\ ruby = None
    /\ stat = None
    /\ pc = "idle"
    /\ returned = <<>>
    /\ branch = "init"
    /\ injected = <<>>
    /\ morphs_and_statuses = <<>>
    /\ scan_order = <<>>
    /\ unit_index = 0
    /\ scan_expression = <<>>
    /\ morpheme = Morpheme(None, None)
    /\ evaluate_morph_inflection = FALSE
    /\ interval_for_known_morphs = 0
    /\ morph_status = None
    /\ ruby_end = 0
    /\ raw_expression = expression
    /\ matches = <<>>
    /\ NoConfigRead

Next ==
    \/ Highlighted
    \/ Process
    \/ PullRuby
    \/ PullRubiesEnd
    \/ PullStatus
    \/ PullStatusesEnd
    \/ PullStatus2
    \/ PullStatusesEnd2

\* highlighted() called on a TextHighlighter with any clean text and any
\* non-overlapping rubies and statuses.
Spec == Init /\ [][Next]_vars

\* The steps of a running _process: its loop iterations and the passes of its
\* pull loops.
Sweep ==
    \/ Process
    \/ PullRuby
    \/ PullRubiesEnd
    \/ PullStatus
    \/ PullStatusesEnd
    \/ PullStatus2
    \/ PullStatusesEnd2

\* Init with every status labelled known: no test of _process reads a label
\* (lines 160-322 compare starts and ends only), so one label stands for all.
InitLive ==
    /\ Init
    /\ \A i \in 1 .. Len(statuses) : statuses[i].status = StatusKnown

\* highlighted() called as in Spec, with a call of _process that has started
\* running on: _process is sequential code with no blocking call, so its
\* next step is always taken.
SpecLive == InitLive /\ [][Next]_vars /\ WF_vars(Sweep)

\* ------------------------------------------------------- reading markup

\* target[i:] starts with tag (i is 0-based).
HasAt(target, i, tag) == Slice(target, i, i + Len(tag)) = tag

\* The opening tag of a status container at offset i, if there is one.
StatusOpenAt(target, i) ==
    {st \in StatusLabels :
        HasAt(target, i, StatusOpen(StatusRange(0, 0, st)))}

\* The markup from offset i on is well formed, given the stack of the elements
\* open at i: every "<" starts a whole tag, every ">" ends one, and each
\* closing tag closes the element opened last.
RECURSIVE Nested(_, _, _)
Nested(target, i, open) ==
    IF i >= Len(target) THEN open = <<>>
    ELSE IF target[i + 1] = ">" THEN FALSE
    ELSE IF target[i + 1] # "<" THEN Nested(target, i + 1, open)
    ELSE IF HasAt(target, i, RubyOpen)
         THEN Nested(target, i + Len(RubyOpen), Append(open, "ruby"))
    ELSE IF HasAt(target, i, RtOpen)
         THEN Nested(target, i + Len(RtOpen), Append(open, "rt"))
    ELSE IF StatusOpenAt(target, i) # {}
         THEN LET st == CHOOSE l \in StatusOpenAt(target, i) : TRUE
              IN  Nested(target, i + StatusOpenLen(StatusRange(0, 0, st)),
                         Append(open, "span"))
    ELSE IF HasAt(target, i, RubyClose)
         THEN /\ open # <<>>
              /\ Last(open) = "ruby"
              /\ Nested(target, i + Len(RubyClose), Front(open))
    ELSE IF HasAt(target, i, RtClose)
         THEN /\ open # <<>>
              /\ Last(open) = "rt"
              /\ Nested(target, i + Len(RtClose), Front(open))
    ELSE IF HasAt(target, i, StatusClose)
         THEN /\ open # <<>>
              /\ Last(open) = "span"
              /\ Nested(target, i + Len(StatusClose), Front(open))
    ELSE FALSE

WellNested(target) == Nested(target, 0, <<>>)

\* highlighted() has returned at least once.
Done == pc = "idle" /\ returned # <<>>

\* ----------------------------------------------------------------- claims

\* C1: for every clean text and every non-overlapping rubies and statuses, in
\* any relative configuration, the string _process leaves in _highlighted is
\* correctly nested markup: every inserted opening tag is intact and closed by
\* its closing tag, and no two inserted elements cross.
C1_CorrectlyNested == Done => WellNested(returned[1])

\* C2: at the moment _process injects a span, directly or after shifting it in
\* a pull loop, the buffer's characters at the span's current [start, end) are
\* the clean text's characters at the span's original [start, end).
C2_OffsetsValid ==
    \A i \in 1 .. Len(injected) :
        injected[i].seen =
            Slice(expression, injected[i].orig[1], injected[i].orig[2])

\* text[a:b] of the clean text.
Clean(a, b) == Slice(expression, a, b)

\* The ruby container around the clean text's own slice.
RubyOver(r) == RubyOpen \o Clean(r.start, r.end) \o RubyRt(r) \o RubyClose

\* The status container around the clean text's own slice.
StatusOver(s) == StatusOpen(s) \o Clean(s.start, s.end) \o StatusClose

\* The one ruby and the one status of a TextHighlighter built with one each.
OneEach == Len(in_rubies) = 1 /\ Len(in_statuses) = 1

\* C5: composing with no annotations is the identity: when both deques are
\* empty, every call of highlighted() returns the clean text unchanged.
C5_NoAnnotationsIdentity ==
    (in_rubies = <<>> /\ in_statuses = <<>>) =>
        \A i \in 1 .. Len(returned) : returned[i] = expression

C5_Witness ==
    /\ in_rubies = <<>>
    /\ in_statuses = <<>>
    /\ expression # <<>>
    /\ returned # <<>>

\* The iteration of _process that is about to run holds a ruby and a status.
BothHeld == pc = "loop" /\ HeldRuby # None /\ HeldStat # None

\* C7, the step: with the same start and the same end held, the iteration
\* leaves text[:start], the status container whose sole content is the whole
\* ruby container, and the buffer from end on; both spans are released.
C7_Step ==
    (BothHeld /\ SameRangeCond(HeldRuby[1], HeldStat[1])) =>
        /\ _highlighted' =
               Some(Clean(0, HeldStat[1].start) \o StatusOpen(HeldStat[1])
                    \o RubyOver(HeldRuby[1]) \o StatusClose
                    \o SliceFrom(_highlighted[1], HeldStat[1].end))
        /\ ruby' = None
        /\ stat' = None

\* C7, the result: one ruby and one status over the same range give
\* text[:start] + status-open + ruby container + status-close + text[end:].
C7_Result ==
    (Done /\ OneEach /\ SameRangeCond(in_rubies[1], in_statuses[1])) =>
        returned[1] =
            Clean(0, in_statuses[1].start) \o StatusOpen(in_statuses[1])
                \o RubyOver(in_rubies[1]) \o StatusClose
                \o Clean(in_statuses[1].end, Len(expression))

\* C7: identical ranges: the status container is outermost, its sole content
\* is the complete ruby container, and both spans are released.
C7_IdenticalRange == []C7_Result /\ [][C7_Step]_vars

C7_Witness == Done /\ OneEach /\ SameRangeCond(in_rubies[1], in_statuses[1])

\* C8, the step, among any other spans: of a ruby and a status that do not
\* overlap, the one with the larger start is injected at its offsets, its
\* container wrapping its own slice of the clean text, and released; the rest
\* of the buffer is left as it was and the other span stays held.
C8_Step ==
    (BothHeld /\ NoOverlapCond(HeldRuby[1], HeldStat[1])) =>
        IF HeldRuby[1].start > HeldStat[1].start
        THEN /\ _highlighted' =
                    Some(SliceTo(_highlighted[1], HeldRuby[1].start)
                         \o RubyOver(HeldRuby[1])
                         \o SliceFrom(_highlighted[1], HeldRuby[1].end))
             /\ ruby' = None
             /\ stat' = HeldStat
        ELSE /\ _highlighted' =
                    Some(SliceTo(_highlighted[1], HeldStat[1].start)
                         \o StatusOver(HeldStat[1])
                         \o SliceFrom(_highlighted[1], HeldStat[1].end))
             /\ stat' = None
             /\ ruby' = HeldRuby

\* C8, the result: one ruby and one status that do not overlap each wrap their
\* own slice, whichever lies first.
C8_Result ==
    (Done /\ OneEach /\ NoOverlapCond(in_rubies[1], in_statuses[1])) =>
        LET r == in_rubies[1]
            s == in_statuses[1]
        IN  returned[1] =
                IF r.start < s.start
                THEN Clean(0, r.start) \o RubyOver(r) \o Clean(r.end, s.start)
                         \o StatusOver(s) \o Clean(s.end, Len(expression))
                ELSE Clean(0, s.start) \o StatusOver(s) \o Clean(s.end, r.start)
                         \o RubyOver(r) \o Clean(r.end, Len(expression))

\* C8: disjoint merge: the span with the larger start is injected first and
\* only it is released; after both are injected each markup wraps exactly its
\* own slice of the clean text.
C8_DisjointMerge == []C8_Result /\ [][C8_Step]_vars

C8_Witness ==
    /\ Done
    /\ OneEach
    /\ in_rubies[1].end < in_statuses[1].start

\* text[from:to] with the slice of each ruby rs[i], rs[i+1], ... replaced by
\* its container.
RECURSIVE WrapRubies(_, _, _, _)
WrapRubies(rs, i, from, to) ==
    IF i > Len(rs) THEN Clean(from, to)
    ELSE Clean(from, rs[i].start) \o RubyOver(rs[i])
             \o WrapRubies(rs, i + 1, rs[i].end, to)

\* text[from:to] with the slice of each status ss[i], ss[i+1], ... wrapped in
\* its container.
RECURSIVE WrapStatuses(_, _, _, _)
WrapStatuses(ss, i, from, to) ==
    IF i > Len(ss) THEN Clean(from, to)
    ELSE Clean(from, ss[i].start) \o StatusOver(ss[i])
             \o WrapStatuses(ss, i + 1, ss[i].end, to)

\* Range a lies inside range b and is not b.
StrictlyInside(a, b) ==
    /\ b.start <= a.start
    /\ a.end <= b.end
    /\ ~(a.start = b.start /\ a.end = b.end)

\* One status, and one or more rubies that all lie inside it.
RubiesInOneStatus ==
    /\ Len(in_statuses) = 1
    /\ Len(in_rubies) >= 1
    /\ \A i \in 1 .. Len(in_rubies) : StrictlyInside(in_rubies[i], in_statuses[1])

\* C9, the result: the status container holds the status's text, in which
\* each contained ruby is replaced by its complete container.
C9_Result ==
    (Done /\ RubiesInOneStatus) =>
        returned[1] =
            Clean(0, in_statuses[1].start) \o StatusOpen(in_statuses[1])
                \o WrapRubies(in_rubies, 1, in_statuses[1].start,
                              in_statuses[1].end)
                \o StatusClose \o Clean(in_statuses[1].end, Len(expression))

\* C9, the steps, among any other spans: the iteration that finds the held
\* ruby inside the held status, and each pass of the pull loop over a ruby
\* that lies inside that status.
C9_Step ==
    /\ (/\ BothHeld
        /\ ~NoOverlapCond(HeldRuby[1], HeldStat[1])
        /\ StrictlyInside(HeldRuby[1], HeldStat[1])) =>
           _highlighted' =
               Some(Clean(0, HeldStat[1].start) \o StatusOpen(HeldStat[1])
                    \o Clean(HeldStat[1].start, HeldRuby[1].start)
                    \o RubyOver(HeldRuby[1])
                    \o Clean(HeldRuby[1].end, HeldStat[1].end) \o StatusClose
                    \o SliceFrom(_highlighted[1], HeldStat[1].end))
    /\ (/\ pc = "pull_rubies"
        /\ PullRubiesCond
        /\ Last(rubies).start >= stat[1].start) =>
           _highlighted' =
               Some(Clean(0, stat[1].start) \o StatusOpen(stat[1])
                    \o Clean(stat[1].start, Last(rubies).start)
                    \o RubyOver(Last(rubies))
                    \o SliceFrom(_highlighted[1],
                                 Last(rubies).end + StatusOpenLen(stat[1])))

\* C9: ruby inside status: the output is text[:stat.start] + status-open +
\* text[stat.start:ruby.start] + ruby container + text[ruby.end:stat.end] +
\* status-close + text[stat.end:], and the same holds for every further ruby
\* contained in that status.
C9_RubyInsideStatus == []C9_Result /\ [][C9_Step]_vars

C9_Witness == Done /\ RubiesInOneStatus /\ Len(in_rubies) >= 2

\* One ruby, and one or more statuses that all lie inside it.
StatusesInOneRuby ==
    /\ Len(in_rubies) = 1
    /\ Len(in_statuses) >= 1
    /\ \A i \in 1 .. Len(in_statuses) :
           StrictlyInside(in_statuses[i], in_rubies[1])

\* C10, the result: the ruby container's base is the ruby's text, in which
\* each contained status's slice is wrapped in its container; the rt element
\* follows the base.
C10_Result ==
    (Done /\ StatusesInOneRuby) =>
        returned[1] =
            Clean(0, in_rubies[1].start) \o RubyOpen
                \o WrapStatuses(in_statuses, 1, in_rubies[1].start,
                                in_rubies[1].end)
                \o RubyRt(in_rubies[1]) \o RubyClose
                \o Clean(in_rubies[1].end, Len(expression))

\* C10, the steps, among any other spans: the iteration that finds the held
\* status inside the held ruby, and each pass of the pull loop over a status
\* that lies inside that ruby.
C10_Step ==
    /\ (/\ BothHeld
        /\ ~NoOverlapCond(HeldRuby[1], HeldStat[1])
        /\ StrictlyInside(HeldStat[1], HeldRuby[1])) =>
           _highlighted' =
               Some(Clean(0, HeldRuby[1].start) \o RubyOpen
                    \o Clean(HeldRuby[1].start, HeldStat[1].start)
                    \o StatusOver(HeldStat[1])
                    \o Clean(HeldStat[1].end, HeldRuby[1].end)
                    \o RubyRt(HeldRuby[1]) \o RubyClose
                    \o SliceFrom(_highlighted[1], HeldRuby[1].end))
    /\ (/\ pc = "pull_statuses"
        /\ PullStatusesCond
        /\ Last(statuses).start >= ruby[1].start) =>
           _highlighted' =
               Some(Clean(0, ruby[1].start) \o RubyOpen
                    \o Clean(ruby[1].start, Last(statuses).start)
                    \o StatusOver(Last(statuses))
                    \o SliceFrom(_highlighted[1],
                                 Last(statuses).end + RubyPrefixLen))

\* C10: status inside ruby: the output is text[:ruby.start] + ruby-open + the
\* base text in which exactly [stat.start, stat.end) is wrapped in the status
\* container + rt element + ruby-close + text[ruby.end:], and every further
\* status contained in the ruby is wrapped the same way at its own slice.
C10_StatusInsideRuby == []C10_Result /\ [][C10_Step]_vars

C10_Witness == Done /\ StatusesInOneRuby /\ Len(in_statuses) >= 2

\* ------------------------------------------------- claims on the scanner

\* C3: for every text and every collection of units, no two status spans
\* recorded by the scanner intersect.
C3_NoOverlap ==
    pc = "scanned" =>
        \A i, j \in 1 .. Len(statuses) :
            i # j =>
                \/ statuses[i].end <= statuses[j].start
                \/ statuses[j].end <= statuses[i].start

\* The offsets at which sub occurs in text.
Occurrences(text, sub) ==
    {i \in 0 .. Len(text) - Len(sub) : Slice(text, i, i + Len(sub)) = sub}

\* Unit s is a substring of the longer unit l.
ShorterInside(s, l) ==
    Len(s.morph) < Len(l.morph) /\ Occurrences(l.morph, s.morph) # {}

\* The recorded spans that cover exactly the occurrence of l at offset p.
Covering(p, l) ==
    {k \in 1 .. Len(statuses) :
        statuses[k].start = p /\ statuses[k].end = p + Len(l.morph)}

\* The recorded spans of the length of s inside the occurrence of l at p.
SpansInside(p, l, s) ==
    {k \in 1 .. Len(statuses) :
        /\ p <= statuses[k].start
        /\ statuses[k].end <= p + Len(l.morph)
        /\ statuses[k].end - statuses[k].start = Len(s.morph)}

\* The occurrence of l at p has exactly one span, which covers all of it and
\* carries l's status, and no span of s lies inside it.
OneSpanFor(p, l, s) ==
    /\ Cardinality(Covering(p, l)) = 1
    /\ \A k \in Covering(p, l) : statuses[k].status = l.status
    /\ SpansInside(p, l, s) = {}

\* Another recorded span, of a unit at least as long as l, intersects the
\* occurrence of l at p: a span of a longer or equally long unit, or of
\* another occurrence of l.
Preempted(p, l) ==
    \E k \in 1 .. Len(statuses) :
        /\ k \notin Covering(p, l)
        /\ statuses[k].end - statuses[k].start >= Len(l.morph)
        /\ statuses[k].start < p + Len(l.morph)
        /\ p < statuses[k].end

\* C4 as stated: when a unit s is a substring of a longer unit l, every
\* occurrence of l in the text yields exactly one status span covering the
\* whole occurrence with l's status, and no span for s is recorded inside that
\* region, whatever the order of the units in the input list.
C4_EveryOccurrence ==
    pc = "scanned" =>
        \A li, si \in 1 .. Len(morphs_and_statuses) :
            ShorterInside(morphs_and_statuses[si], morphs_and_statuses[li]) =>
                \A p \in Occurrences(Lower(expression),
                                     morphs_and_statuses[li].morph) :
                    OneSpanFor(p, morphs_and_statuses[li],
                               morphs_and_statuses[si])

\* C4 as amended: when a unit s is a substring of a longer unit l, every
\* occurrence of l in the text that no span of another occurrence of l or of
\* another unit at least as long as l intersects yields exactly one status
\* span covering the whole occurrence with l's status, and no span for s is
\* recorded inside that region, whatever the order of the units in the input
\* list.
C4_LongestMatch ==
    pc = "scanned" =>
        \A li, si \in 1 .. Len(morphs_and_statuses) :
            ShorterInside(morphs_and_statuses[si], morphs_and_statuses[li]) =>
                \A p \in Occurrences(Lower(expression),
                                     morphs_and_statuses[li].morph) :
                    \/ Preempted(p, morphs_and_statuses[li])
                    \/ OneSpanFor(p, morphs_and_statuses[li],
                                  morphs_and_statuses[si])

\* The shorter unit comes first in the input list, the longer one occurs and
\* its occurrence has its span.
C4_Witness ==
    /\ pc = "scanned"
    /\ Len(morphs_and_statuses) = 2
    /\ ShorterInside(morphs_and_statuses[1], morphs_and_statuses[2])
    /\ \E p \in Occurrences(Lower(expression), morphs_and_statuses[2].morph) :
           /\ ~Preempted(p, morphs_and_statuses[2])
           /\ OneSpanFor(p, morphs_and_statuses[2], morphs_and_statuses[1])

\* ---------------------------------------------- claims on the classifier

\* The interval the flag selects; an absent attribute counts as 0.
SelectedInterval ==
    LET attribute ==
            IF evaluate_morph_inflection
            THEN morpheme.highest_inflection_learning_interval
            ELSE morpheme.highest_lemma_learning_interval
    IN  IF attribute = None THEN 0 ELSE attribute[1]

\* C6: get_status_for_morph is a total three-way classification of the
\* selected interval against the threshold: 0 gives unknown, 0 < interval <
\* threshold gives learning, interval >= threshold (interval > 0) gives known;
\* so classify(threshold) is known, classify(threshold - 1) is learning for
\* threshold > 1, and classify(0) is unknown.
C6_Classification ==
    morph_status # None =>
        LET i == SelectedInterval
            t == interval_for_known_morphs
        IN  /\ morph_status[1] \in StatusLabels
            /\ (i = 0) <=> (morph_status[1] = StatusUnknown)
            /\ (0 < i /\ i < t) <=> (morph_status[1] = StatusLearning)
            /\ (0 < i /\ i >= t) <=> (morph_status[1] = StatusKnown)
            /\ (i = t /\ t > 0) => morph_status[1] = StatusKnown
            /\ (i = t - 1 /\ t > 1) => morph_status[1] = StatusLearning

\* classify(threshold) has returned known, for a threshold above 1.
C6_Witness ==
    /\ morph_status = Some(StatusKnown)
    /\ interval_for_known_morphs > 1
    /\ SelectedInterval = interval_for_known_morphs

\* ------------------------------------------- claims on partial overlaps

\* The ruby starts before the status, which starts before the ruby ends.
LeftPartial(r, s) == r.start < s.start /\ s.start < r.end /\ r.end < s.end

\* The status starts before the ruby, which starts before the status ends.
RightPartial(r, s) == s.start < r.start /\ r.start < s.end /\ s.end < r.end

\* C11, the step, among any other spans: the iteration that holds a ruby and a
\* status in left partial overlap leaves the buffer before ruby.start and from
\* stat.end on as they were and rewrites the region between as claimed.
C11_Step ==
    (BothHeld /\ LeftPartial(HeldRuby[1], HeldStat[1])) =>
        LET r == HeldRuby[1]
            s == HeldStat[1]
        IN  _highlighted' =
                Some(Clean(0, r.start) \o RubyOpen \o Clean(r.start, s.start)
                     \o StatusOpen(s) \o Clean(s.start, r.end) \o StatusClose
                     \o RubyRt(r) \o RubyClose \o StatusOpen(s)
                     \o Clean(r.end, s.end) \o StatusClose
                     \o SliceFrom(_highlighted[1], s.end))

\* C11, the result: one ruby and one status in left partial overlap give the
\* clean text with the region [ruby.start, stat.end) rewritten as claimed.
C11_Result ==
    (Done /\ OneEach /\ LeftPartial(in_rubies[1], in_statuses[1])) =>
        LET r == in_rubies[1]
            s == in_statuses[1]
        IN  returned[1] =
                Clean(0, r.start) \o RubyOpen \o Clean(r.start, s.start)
                    \o StatusOpen(s) \o Clean(s.start, r.end) \o StatusClose
                    \o RubyRt(r) \o RubyClose \o StatusOpen(s)
                    \o Clean(r.end, s.end) \o StatusClose
                    \o Clean(s.end, Len(expression))

\* C11: left partial overlap (ruby.start < stat.start < ruby.end < stat.end):
\* the region [ruby.start, stat.end) is rewritten as ruby-open,
\* text[ruby.start:stat.start], status-open, text[stat.start:ruby.end],
\* status-close, rt element, ruby-close, status-open, text[ruby.end:stat.end],
\* status-close, with the text before ruby.start and after stat.end unchanged.
C11_LeftPartial == []C11_Result /\ [][C11_Step]_vars

C11_Witness == Done /\ OneEach /\ LeftPartial(in_rubies[1], in_statuses[1])

\* C12: right partial overlap (stat.start < ruby.start < stat.end < ruby.end),
\* whatever the distance between stat.end and ruby.end: the output is
\* text[:stat.start], the status container around text[stat.start:ruby.start],
\* ruby-open, the status container around exactly the overlap
\* text[ruby.start:stat.end], the remaining ruby text text[stat.end:ruby.end],
\* the rt element, ruby-close, text[ruby.end:]; each character of
\* text[stat.start:ruby.end] appears once and both spans are released.
C12_RightPartial ==
    (Done /\ OneEach /\ RightPartial(in_rubies[1], in_statuses[1])) =>
        LET r == in_rubies[1]
            s == in_statuses[1]
        IN  /\ returned[1] =
                   Clean(0, s.start) \o StatusOpen(s)
                       \o Clean(s.start, r.start) \o StatusClose \o RubyOpen
                       \o StatusOpen(s) \o Clean(r.start, s.end)
                       \o StatusClose \o Clean(s.end, r.end) \o RubyRt(r)
                       \o RubyClose \o Clean(r.end, Len(expression))
            /\ ruby = None
            /\ stat = None

\* -------------------------------------------------- claims on the sweep

\* C13: the fallback of lines 322-326 is unreachable: whenever an iteration
\* holds a ruby and a status, one of the cases before it applies (disjoint,
\* identical, ruby inside status, status inside ruby, left partial, right
\* partial), so no iteration takes the fallback.
C13_FallbackUnreachable ==
    /\ branch # "fallback"
    /\ BothHeld =>
           LET r == HeldRuby[1]
               s == HeldStat[1]
           IN  \/ NoOverlapCond(r, s)
               \/ SameRangeCond(r, s)
               \/ RubyInsideStatusCond(r, s)
               \/ StatusInsideRubyCond(r, s)
               \/ RubyStartsFirstCond(r, s)
               \/ StatusStartsFirstCond(r, s)

\* An iteration that held a ruby and a status took the last case before the
\* fallback.
C13_Witness == pc = "loop" /\ branch = "status_starts_first"

\* The work the sweep still has to do: a pop and a release for every span in
\* the deques, a release for every span held in a local.
Pending ==
    2 * (Len(rubies) + Len(statuses)) + (IF ruby = None THEN 0 ELSE 1)
        + (IF stat = None THEN 0 ELSE 1)

\* C14, the end of the sweep: when highlighted() has returned, both deques
\* are empty and no span is held.
C14_Drained ==
    Done => rubies = <<>> /\ statuses = <<>> /\ ruby = None /\ stat = None

\* C14, the steps: an iteration of the loop stops or releases a span it held,
\* a pass of a pull loop pops one span or ends the iteration with nothing
\* held; no step pushes a span, and a pop takes the deque's last span, so a
\* span is popped once.
C14_Step ==
    /\ pc = "loop" =>
           \/ pc' = "idle" /\ HeldRuby = None /\ HeldStat = None
           \/ HeldRuby # None /\ ruby' = None
           \/ HeldStat # None /\ stat' = None
    /\ pc \in {"pull_rubies", "pull_statuses", "pull_statuses_2"} =>
           \/ Len(rubies') + Len(statuses') < Len(rubies) + Len(statuses)
           \/ pc' = "loop" /\ ruby' = None /\ stat' = None
    /\ pc # "idle" => Pending' < Pending \/ pc' = "idle"
    /\ rubies' = rubies \/ (rubies # <<>> /\ rubies' = Front(rubies))
    /\ statuses' = statuses \/ (statuses # <<>> /\ statuses' = Front(statuses))

\* C14: the sweep always terminates, and when it does both stacks are empty
\* and no span is held: every iteration releases at least one held span or
\* stops, and every span in the deques is popped exactly once.
C14_SweepTerminates ==
    /\ []C14_Drained
    /\ [][C14_Step]_vars
    /\ (pc # "idle") ~> (pc = "idle")

\* A sweep over two rubies and two statuses has ended.
C14_Witness ==
    Done /\ Len(in_rubies) = 2 /\ Len(in_statuses) = 2 /\ branch = "break"

\* --------------------------------------------- TextHighlighter._tag_rubies

\* text_preprocessing.ruby_regex, the pattern "base text wrapped in a
\* pronunciation container, with the pronunciation text in a nested
\* sub-element, optionally followed by trailing characters before the
\* container closes", with at least one annotation character:
\* <ruby>(base)<rt>(annotation)</rt>trailing</ruby>, each part as short as a
\* match allows.  The offsets at which tag occurs in text, from offset from on.
TagOffsets(text, tag, from) ==
    {i \in from .. Len(text) - Len(tag) :
        \A n \in 1 .. Len(tag) : text[i + n] = tag[n]}

\* The starts of the container's close that a match can use, given the
\* start k of the sub-element's close; closes holds the offsets of all
\* container closes.
CloseOffsets(closes, k) == {l \in closes : l >= k + Len(RtClose)}

\* The starts of the sub-element's close that a match can use, given the
\* start j of the sub-element's open: at least one annotation character lies
\* between them.
RtCloseOffsets(rt_closes, closes, j) ==
    {k \in rt_closes :
        k >= j + Len(RtOpen) + 1 /\ CloseOffsets(closes, k) # {}}

\* The starts of the sub-element's open that a match can use, given the start
\* i of the container's open.
RtOpenOffsets(rt_opens, rt_closes, closes, i) ==
    {j \in rt_opens :
        j >= i + Len(RubyOpen) /\ RtCloseOffsets(rt_closes, closes, j) # {}}

\* The least element of a non-empty set of offsets.
Least(S) == CHOOSE x \in S : \A y \in S : x <= y

\* The match that starts at offset i: match.start(), match.end(), group(1)
\* and group(2).
MatchAt(text, rt_opens, rt_closes, closes, i) ==
    LET j == Least(RtOpenOffsets(rt_opens, rt_closes, closes, i))
        k == Least(RtCloseOffsets(rt_closes, closes, j))
        l == Least(CloseOffsets(closes, k))
    IN  [start |-> i, end |-> l + Len(RubyClose),
         base |-> Slice(text, i + Len(RubyOpen), j),
         annotation |-> Slice(text, j + Len(RtOpen), k)]

\* ruby_regex.search(text, pos): the leftmost match that starts at pos or
\* later, or None.
RubyRegexSearch(text, pos) ==
    LET rt_opens == TagOffsets(text, RtOpen, pos)
        rt_closes == TagOffsets(text, RtClose, pos)
        closes == TagOffsets(text, RubyClose, pos)
        starts == {i \in TagOffsets(text, RubyOpen, pos) :
                       RtOpenOffsets(rt_opens, rt_closes, closes, i) # {}}
    IN  IF starts = {} THEN None
        ELSE Some(MatchAt(text, rt_opens, rt_closes, closes, Least(starts)))

\* The search resumed from the start of the last match instead of from the
\* end of its span.
SearchPosStart == IF matches = <<>> THEN ruby_end ELSE Last(matches).start

\* Line 103: pos=end.
SearchPos == ruby_end

\* The span ended where the match ended in the text before the rewrite.
EndOfWholeMatch(match) == match.end

\* Line 108.
EndOfBase(match) == match.start + Len(match.base)

\* Lines 103-117: a pass of the loop that finds a match.
TagRubiesMatch ==
    /\ pc = "tag_rubies"
    /\ LET found == RubyRegexSearch(expression, SearchPos)
       IN  /\ found # None
           /\ ruby_end' = EndOfBase(found[1])
           /\ rubies' =
                  Append(rubies,
                         RubyRange(found[1].start, EndOfBase(found[1]),
                                   found[1].base, found[1].annotation))
           /\ expression' =
                  SliceTo(expression, found[1].start) \o found[1].base
                      \o SliceFrom(expression, found[1].end)
           /\ matches' = Append(matches, found[1])
    /\ UNCHANGED <<statuses, _highlighted, ruby, stat, pc, returned, branch,
                   injected, in_rubies, in_statuses, raw_expression>>
    /\ UNCHANGED scanVars
    /\ UNCHANGED classifyVars
    /\ UNCHANGED configVars

\* Lines 103-106: no match: _tag_rubies returns.
TagRubiesEnd ==
    /\ pc = "tag_rubies"
    /\ RubyRegexSearch(expression, SearchPos) = None
    /\ pc' = "rubies_tagged"
    /\ UNCHANGED <<expression, rubies, statuses, _highlighted, ruby, stat,
                   returned, branch, injected, in_rubies, in_statuses>>
    /\ UNCHANGED scanVars
    /\ UNCHANGED classifyVars
    /\ UNCHANGED rubyVars
    /\ UNCHANGED configVars

\* The concatenation of a sequence of strings.
RECURSIVE Concat(_)
Concat(q) == IF q = <<>> THEN <<>> ELSE Head(q) \o Concat(Tail(q))

\* The plain text of a base: all characters differ.
BaseLetters == <<"a", "b", "c", "d">>

\* The bases of the containers of a raw text: plain text, or a container open
\* left in front of plain text.
Bases ==
    {SubSeq(BaseLetters, 1, n) : n \in 0 .. MaxBaseLen}
        \cup {RubyOpen \o SubSeq(BaseLetters, 1, n) : n \in 0 .. MaxBaseLen - 1}

\* The segments a raw text is made of: a character outside any container; a
\* container, with or without trailing text; a container whose annotation is
\* empty; a sub-element and a container close with no open before them.
Segments ==
    {<<"p">>}
        \cup {RubyOpen \o b \o RtOpen \o <<"x">> \o RtClose \o t \o RubyClose :
                 b \in Bases, t \in {<<>>, <<"t">>}}
        \cup {RubyOpen \o <<"a">> \o RtOpen \o RtClose \o RubyClose}
        \cup {RtOpen \o <<"y">> \o RtClose \o RubyClose}

RawTexts ==
    {Concat(q) : q \in UNION {[1 .. n -> Segments] : n \in 0 .. MaxSegments}}

\* __init__ at line 94, about to call _tag_rubies on any raw text.
InitRubies ==
    /\ raw_expression \in RawTexts
    /\ expression = raw_expression
    /\ rubies = <<>>
    /\ ruby_end = 0
    /\ matches = <<>>
    /\ NoConfigRead
    /\ pc = "tag_rubies"
    /\ statuses = <<>>
    /\ in_rubies = <<>>
    /\ in_statuses = <<>>
    /\ _highlighted = None
    /\ ruby = None
    /\ stat = None
    /\ returned = <<>>
    /\ branch = "init"
    /\ injected = <<>>
    /\ morphs_and_statuses = <<>>
    /\ scan_order = <<>>
    /\ unit_index = 0
    /\ scan_expression = <<>>
    /\ morpheme = Morpheme(None, None)
    /\ evaluate_morph_inflection = FALSE
    /\ interval_for_known_morphs = 0
    /\ morph_status = None

NextRubies == TagRubiesMatch \/ TagRubiesEnd

\* _tag_rubies called on any raw text.
SpecRubies == InitRubies /\ [][NextRubies]_vars

\* --------------------------------------------- claims on the ruby extractor

\* C15: ruby extraction round trip: every recorded ruby span has
\* end = start + len(base), the rewritten text holds base at [start, end), now
\* and after every later rewrite, and its base and annotation are the
\* captured groups of its match.
C15_RoundTrip ==
    /\ Len(rubies) = Len(matches)
    /\ \A i \in 1 .. Len(rubies) :
           /\ rubies[i].end = rubies[i].start + Len(rubies[i].base)
           /\ Slice(expression, rubies[i].start, rubies[i].end) = rubies[i].base
           /\ rubies[i].start = matches[i].start
           /\ rubies[i].base = matches[i].base
           /\ rubies[i].ruby = matches[i].annotation

\* Two spans were recorded, the first of a match with trailing text, and
\* _tag_rubies has returned.
C15_Witness ==
    /\ pc = "rubies_tagged"
    /\ Len(rubies) = 2
    /\ rubies[1].base # <<>>
    /\ matches[1].end - matches[1].start >
           Len(RubyOpen) + Len(matches[1].base) + Len(RtOpen)
               + Len(matches[1].annotation) + Len(RtClose) + Len(RubyClose)

\* C16: ruby spans recorded by the extractor never overlap: of two
\* consecutive recorded spans the first ends at or before the start of the
\* second.
C16_RubiesDisjoint ==
    \A i \in 1 .. Len(rubies) - 1 : rubies[i].end <= rubies[i + 1].start

\* Two spans were recorded, the second right at the end of the first.
C16_Witness ==
    /\ pc = "rubies_tagged"
    /\ Len(rubies) = 2
    /\ rubies[1].end = rubies[2].start

\* ------------------------------------ claims on the scanner's soundness

\* C17: scanner soundness: every status span recorded by _tag_morphemes covers
\* a literal occurrence of its unit in the lowercased clean text
\* (text[start:end] is the unit's surface text) and carries that unit's
\* status, so a unit that does not occur in the text has no span.
C17_ScannerSound ==
    pc = "scanned" =>
        \A k \in 1 .. Len(statuses) :
            \E u \in 1 .. Len(morphs_and_statuses) :
                /\ Slice(Lower(expression), statuses[k].start, statuses[k].end)
                       = morphs_and_statuses[u].morph
                /\ statuses[k].status = morphs_and_statuses[u].status

\* C18, the step: a hit of the per-unit search loop removes a findable
\* occurrence of the unit from the working copy.
C18_Step ==
    (pc = "scan" /\ Len(statuses') > Len(statuses)) =>
        Cardinality(Occurrences(scan_expression',
                                scan_order[unit_index].morph))
            < Cardinality(Occurrences(scan_expression,
                                      scan_order[unit_index].morph))

\* C18: the scanner is total: for every text and all units with non-empty
\* surface texts the per-unit search loop stops, each hit removing one
\* findable occurrence, so that no more hits are recorded than the text has
\* characters, and the scanner returns.
C18_ScannerTotal ==
    /\ [](Len(statuses) <= Len(expression))
    /\ [][C18_Step]_vars

\* ------------------------------------------------ claims on the pull loops

\* C19, the step: a pass of a pull loop that pops a span pops one that lies
\* inside the enclosing span's range.
C19_Step ==
    /\ (pc = "pull_rubies" /\ Len(rubies') < Len(rubies)) =>
           /\ stat[1].start <= Last(rubies).start
           /\ Last(rubies).end <= stat[1].end
    /\ (/\ pc \in {"pull_statuses", "pull_statuses_2"}
        /\ Len(statuses') < Len(statuses)) =>
           /\ ruby[1].start <= Last(statuses).start
           /\ Last(statuses).end <= ruby[1].end

\* C19: in the containment and left partial cases the pull loops shift and
\* inject only spans nested inside the enclosing span's original range: a
\* span that straddles the enclosing span's start is never popped, shifted by
\* the opening-tag length and injected.
C19_PullOnlyNested == [][C19_Step]_vars

\* ------------------------------------ the three methods of TextHighlighter

\* Any of _tag_rubies, _tag_morphemes and highlighted() about to be called.
InitAll == InitRubies \/ InitScan \/ Init

NextAll == NextRubies \/ NextScan \/ Next

\* The extractor, the scanner and the compositor, each run from any state it
\* can be called in.
SpecAll == InitAll /\ [][NextAll]_vars

\* ----------------------------------------------- claims on the pop order

\* The ranges are in ascending order of start.
AscendingStart(ranges) ==
    \A i \in 1 .. Len(ranges) - 1 : ranges[i].start <= ranges[i + 1].start

\* after is before with its element k taken out.
Without(before, k, after) ==
    /\ Len(after) = Len(before) - 1
    /\ \A i \in 1 .. Len(after) :
           after[i] = IF i < k THEN before[i] ELSE before[i + 1]

\* before lost one element to give after, and no element of before has a
\* larger start than the lost one.
PoppedLargest(before, after) ==
    \E k \in 1 .. Len(before) :
        /\ Without(before, k, after)
        /\ \A i \in 1 .. Len(before) : before[i].start <= before[k].start

\* C20, the deques: what _tag_morphemes leaves in statuses and what
\* _tag_rubies leaves in rubies is in ascending order of start, and stays so
\* while _process runs.
C20_Sorted ==
    /\ pc \in {"scanned", "idle", "loop", "pull_rubies", "pull_statuses",
               "pull_statuses_2"} => AscendingStart(statuses)
    /\ pc \in {"tag_rubies", "rubies_tagged", "idle", "loop", "pull_rubies",
               "pull_statuses", "pull_statuses_2"} => AscendingStart(rubies)

\* C20, the pops: a step of _process, in the main loop or in a pull loop,
\* that shortens a deque takes out a span with the largest start among the
\* spans that were in it.
C20_Step ==
    pc \in {"loop", "pull_rubies", "pull_statuses", "pull_statuses_2"} =>
        /\ rubies' # rubies => PoppedLargest(rubies, rubies')
        /\ statuses' # statuses => PoppedLargest(statuses, statuses')

\* C20: both span sequences are consumed in descending start order: the
\* deques the scanner and the extractor produce are sorted by ascending
\* start, so every pop in _process removes the span with the largest start
\* among the remaining spans of its kind.
C20_DescendingPops == []C20_Sorted /\ [][C20_Step]_vars

\* The scanner has returned two spans, the one it recorded second (that of
\* the shorter unit) first.
C20_Witness ==
    /\ pc = "scanned"
    /\ Len(statuses) = 2
    /\ statuses[1].end - statuses[1].start
           < statuses[2].end - statuses[2].start

\* ------------------------------------------------- reading the text back

\* The offset just after the first </rt> at or after offset i, or the end of
\* target when there is none.
RECURSIVE AfterRtClose(_, _)
AfterRtClose(target, i) ==
    IF i >= Len(target) THEN Len(target)
    ELSE IF HasAt(target, i, RtClose) THEN i + Len(RtClose)
    ELSE AfterRtClose(target, i + 1)

\* target from offset i on with every inserted tag and every rt element (its
\* two tags and the annotation between them) deleted.
RECURSIVE Stripped(_, _)
Stripped(target, i) ==
    IF i >= Len(target) THEN <<>>
    ELSE IF HasAt(target, i, RtOpen)
         THEN Stripped(target, AfterRtClose(target, i + Len(RtOpen)))
    ELSE IF HasAt(target, i, RubyOpen)
         THEN Stripped(target, i + Len(RubyOpen))
    ELSE IF HasAt(target, i, RubyClose)
         THEN Stripped(target, i + Len(RubyClose))
    ELSE IF HasAt(target, i, StatusClose)
         THEN Stripped(target, i + Len(StatusClose))
    ELSE IF StatusOpenAt(target, i) # {}
         THEN LET st == CHOOSE l \in StatusOpenAt(target, i) : TRUE
              IN  Stripped(target, i + StatusOpenLen(StatusRange(0, 0, st)))
    ELSE <<target[i + 1]>> \o Stripped(target, i + 1)

\* C21: for every clean text with pairwise non-overlapping rubies and pairwise
\* non-overlapping statuses, the string highlighted() returns, with every
\* inserted tag and every rt element deleted, is the clean text: no character
\* of the clean text is lost, duplicated or moved.
C21_TextPreserved == Done => Stripped(returned[1], 0) = expression

\* Every call of highlighted() so far returned what the first call returned,
\* and the first call left both deques empty.
C22_Result ==
    Done => /\ \A i \in 1 .. Len(returned) : returned[i] = returned[1]
            /\ rubies = <<>>
            /\ statuses = <<>>

\* A call of highlighted() after the first one returns the first call's string
\* at once: it does not enter _process, injects nothing and leaves the buffer
\* and the deques as they were.
C22_Step ==
    (Done /\ Len(returned') > Len(returned))
        => /\ returned' = Append(returned, returned[1])
           /\ pc' = "idle"
           /\ injected' = <<>>
           /\ _highlighted' = Some(returned[1])
           /\ _highlighted' = _highlighted
           /\ rubies' = rubies
           /\ statuses' = statuses

\* C22: highlighted() is idempotent on one TextHighlighter: once the first
\* call has drained both deques, every later call returns the same string as
\* the first call and injects no markup a second time.
C22_Idempotent == []C22_Result /\ [][C22_Step]_vars

\* highlighted() was called again after a first call that injected markup.
C22_Witness ==
    /\ Done
    /\ Len(returned) >= 2
    /\ in_rubies # <<>>
    /\ in_statuses # <<>>
    /\ returned[1] # expression

\* show_critical_config_error has been called at most once.
ShownAtMostOnce == shown <= 1

\* A construction that failed has left ankimorphs_broken true.
FailureLatched == last_call.failed => ankimorphs_broken

\* Every filter in the list _get_filters_config returned was constructed
\* without a failure.
FailedFilterExcluded ==
    \A i \in 1 .. Len(last_call.filters) :
        FirstRaised(FilterAttributes(last_call.filters[i])) = ""

C23_Result == ShownAtMostOnce /\ FailureLatched /\ FailedFilterExcluded

\* The dialog is shown only by a construction that found ankimorphs_broken
\* false, once, and ankimorphs_broken never returns to false.
C23_Step ==
    /\ shown' > shown => ~ankimorphs_broken /\ shown' = shown + 1
    /\ ankimorphs_broken => ankimorphs_broken'

\* C23: the critical config-error dialog is latched: over any sequence of
\* AnkiMorphsConfig and AnkiMorphsConfigFilter constructions that fail with a
\* missing key or a wrong type, show_critical_config_error is called at most
\* once, and only by a failure that finds ankimorphs_broken false;
\* ankimorphs_broken is true after a failure and never returns to false; and
\* a filter whose construction failed is not in the list _get_filters_config
\* returns.
C23_Latched == []C23_Result /\ [][C23_Step]_vars

====
